---- MODULE Spec2Model ----
(***************************************************************************)
(* VortexBot (src/bot.py): the session registries, the farming cooldown,   *)
(* the airdrop and governance windows and the ledger calls they make.      *)
(*                                                                         *)
(* Every event handler is an asyncio coroutine.  The code between two      *)
(* awaits runs without interruption; at an await the handler is suspended  *)
(* and any other handler may run.  Each handler is therefore a sequence of *)
(* atomic steps, one per await it is suspended at, and a task's pc names   *)
(* the await it is suspended at.  A trailing notification with no code     *)
(* after it is part of the step that issues it.                            *)
(*                                                                         *)
(* Amounts are kept in half coins (the reaction reward is 0.5 coin).       *)
(***************************************************************************)
EXTENDS Integers, Sequences, FiniteSets, Bags, TLC

(***************************** bounds **************************************)
\* Handlers that may be suspended at an await at the same time.
MaxTasks == 2
\* Ledger credits after which no new event is delivered.
MaxCredits == 2
\* Sessions (quiz, mining, game) started in one run.
MaxStarts == 2
\* Clock ticks the run covers.
Horizon == 1
\* time.time() when the run begins (seconds since the epoch, scaled down).
StartTime == 1000
\* Awaited ledger or transport calls that raise in one run.
MaxFailures == 1
\* Proposals and airdrops opened in one run.
MaxWindows == 2

Users == {"u1", "u2", "u3"}

(************************ text: str methods ********************************)
UpperCase == <<"A","B","C","D","E","F","G","H","I","J","K","L","M",
               "N","O","P","Q","R","S","T","U","V","W","X","Y","Z">>
LowerCase == <<"a","b","c","d","e","f","g","h","i","j","k","l","m",
               "n","o","p","q","r","s","t","u","v","w","x","y","z">>
Digits == <<"0","1","2","3","4","5","6","7","8","9">>

\* str.lower() on one character and on a string (a sequence of characters).
lower_char(c) ==
    IF \E i \in DOMAIN UpperCase : UpperCase[i] = c
    THEN LowerCase[CHOOSE i \in DOMAIN UpperCase : UpperCase[i] = c]
    ELSE c

lower(s) == [i \in 1..Len(s) |-> lower_char(s[i])]

\* str.startswith('!')
startswith_prefix(s) == Len(s) > 0 /\ s[1] = "!"

\* str.strip() as int() applies it: leading and trailing blanks dropped.
RECURSIVE lstrip(_)
lstrip(s) == IF Len(s) > 0 /\ s[1] = " " THEN lstrip(Tail(s)) ELSE s

RECURSIVE rstrip(_)
rstrip(s) ==
    IF Len(s) > 0 /\ s[Len(s)] = " " THEN rstrip(SubSeq(s, 1, Len(s) - 1)) ELSE s

is_digit(c) == \E i \in DOMAIN Digits : Digits[i] = c
digit_value(c) == (CHOOSE i \in DOMAIN Digits : Digits[i] = c) - 1

RECURSIVE digits_value(_, _)
digits_value(s, acc) ==
    IF s = <<>> THEN acc ELSE digits_value(Tail(s), 10 * acc + digit_value(s[1]))

\* An int() that returns 0 where int() raises.
parse_int_lenient(s) == [ok |-> TRUE, value |-> 0]

\* int(message.content): [ok, value]; ok = FALSE is ValueError.
parse_int(s) ==
    LET body == rstrip(lstrip(s))
        signed == Len(body) > 0 /\ body[1] \in {"+", "-"}
        ds == IF signed THEN Tail(body) ELSE body
    IN  IF Len(ds) > 0 /\ \A i \in 1..Len(ds) : is_digit(ds[i])
        THEN [ok |-> TRUE,
              value |-> IF signed /\ body[1] = "-"
                        THEN 0 - digits_value(ds, 0) ELSE digits_value(ds, 0)]
        ELSE [ok |-> FALSE, value |-> 0]

(************************ dict and set helpers *****************************)
dict_set(m, k, v) == [x \in (DOMAIN m) \cup {k} |-> IF x = k THEN v ELSE m[x]]
dict_del(m, k) == [x \in (DOMAIN m) \ {k} |-> m[x]]
\* dict.get(key, default)
dict_get(m, k, default) == IF k \in DOMAIN m THEN m[k] ELSE default

(************************* program constants *******************************)
Coins(n) == 2 * n

quiz_rewards == [easy |-> Coins(5), medium |-> Coins(10), hard |-> Coins(20)]
quiz_max_attempts == 3
\* @commands.cooldown(1, 300, BucketType.user) on quiz
quiz_cooldown == 300

\* 'reaction': 0.5 is one half coin.
farming_rewards == [message |-> Coins(1), reaction |-> 1, daily_cap |-> Coins(50)]
farming_min_length == 10
farming_cooldown == 60

mining_rewards == [basic |-> Coins(1), rare |-> Coins(5), epic |-> Coins(10)]
mining_duration == 300
mining_minutes == 5

game_rewards == [win |-> Coins(10), participate |-> Coins(2)]
game_max_attempts == 5

proposal_min_balance == 100
proposal_window == 86400

(************************* inputs ******************************************)
TxtFour == <<"4">>
TxtFive == <<"5">>
TxtParis == <<"P","a","r","i","s">>
TxtPARIS == <<"P","A","R","I","S">>
TxtNine == <<"h","e","l","l","o"," ","b","o","t">>
TxtTen == <<"0","0","0","0","0","0","0","0","0","4">>
TxtLong == <<"h","e","l","l","o"," ","w","o","r","l","d">>
TxtCommand == <<"!","q","u","i","z"," ","m","e","d","i","u","m">>

Difficulties == {"easy", "medium", "hard"}

\* db.get_quiz_questions(difficulty): the question pool.
get_quiz_questions(difficulty) ==
    CASE difficulty = "easy" ->
           << [question |-> "2+2?", answer |-> TxtFour, difficulty |-> "easy"] >>
      [] difficulty = "hard" ->
           << [question |-> "Capital of France?", answer |-> TxtParis,
               difficulty |-> "hard"] >>
      [] OTHER -> << >>

\* random.randint(1, 100)
randint_lo == 1
randint_hi == 100
Secrets == {n \in randint_lo..randint_hi : n \in {4, 100}}

(***************************** state ***************************************)
VARIABLES
    active_quizzes,       \* dict: user id -> {question, attempts, max_attempts}
    active_games,         \* dict: user id -> {number, attempts, max_attempts}
    mining_sessions,      \* dict: user id -> {start_time, duration}
    farming_cooldowns,    \* dict: user id -> time of the last base reward
    active_proposals,     \* dict: proposal id -> proposal
    airdrop_participants, \* set of user ids
    balance,              \* ledger: user id -> balance
    daily,                \* ledger: user id -> today's earnings
    now,                  \* time.time()
    tasks,                \* the suspended handlers: a bag of frames
    ledger_log,           \* every db.add_balance call made, in order
    event,                \* the handler step taken last
    sent_embeds,          \* transport: message id -> the proposal it shows
    serial,               \* sessions and windows created so far
    failures              \* awaited calls that raised so far

vars == <<active_quizzes, active_games, mining_sessions, farming_cooldowns,
          active_proposals, airdrop_participants, balance, daily, now, tasks,
          ledger_log, event, sent_embeds, serial, failures>>

bot == <<active_quizzes, active_games, mining_sessions, farming_cooldowns,
         active_proposals, airdrop_participants, sent_embeds>>
sessions == <<active_quizzes, active_games, mining_sessions>>
windows == <<active_proposals, airdrop_participants, sent_embeds>>
ledger == <<balance, daily, ledger_log>>

\* A handler's frame: where it is suspended (pc) and its locals.
Frame ==
    [pc |-> "", h |-> "", owner |-> "", content |-> <<>>, arg |-> "",
     reward |-> 0, daily_earnings |-> 0, last_reward |-> 0, checked_at |-> 0,
     sid |-> 0, rolls |-> {}, wake |-> 0, pool |-> 0, duration |-> 0,
     members |-> {}, it_set |-> {}, it_used |-> 0, visited |-> {}, msg |-> 0]

NoEvent == [h |-> "", owner |-> "", step |-> "", result |-> "",
            content |-> <<>>, arg |-> "", msg |-> 0]


Init ==
    /\ active_quizzes = <<>>
    /\ active_games = <<>>
    /\ mining_sessions = <<>>
    /\ farming_cooldowns = <<>>
    /\ active_proposals = <<>>
    /\ airdrop_participants = {}
    /\ sent_embeds = <<>>
    /\ balance \in [Users -> {0, Coins(100)}]
    /\ daily \in [Users -> {0}]
    /\ now = StartTime
    /\ tasks = EmptyBag
    /\ ledger_log = <<>>
    /\ event = NoEvent
    /\ serial = 0
    /\ failures = 0

(************************* the ledger port *********************************)
\* db.add_balance(user_id, amount).  path, sid and rolls are history: which
\* settlement made the call, for which session, after which bonus rolls.
add_balance(o, amount, path, sid, rolls) ==
    /\ balance' = [balance EXCEPT ![o] = @ + amount]
    /\ daily' = [daily EXCEPT ![o] = @ + amount]
    /\ ledger_log' = Append(ledger_log,
           [owner |-> o, amount |-> amount, path |-> path, sid |-> sid,
            rolls |-> rolls])

\* db.get_daily_earnings(user_id) and db.get_balance(user_id)
get_daily_earnings(o) == daily[o]
get_balance(o) == balance[o]

(************************* the event loop **********************************)
InFlight == BagToSet(tasks)

\* A new event is delivered to a handler of its own (a new asyncio task).
CanDeliver == BagCardinality(tasks) < MaxTasks /\ Len(ledger_log) < MaxCredits

Step(h, o, step, result, content, arg) ==
    event' = [h |-> h, owner |-> o, step |-> step, result |-> result,
              content |-> content, arg |-> arg, msg |-> 0]

StepOf(r, step, result) == Step(r.h, r.owner, step, result, r.content, r.arg)

\* A new handler reaches its first await; a handler moves to its next await;
\* a handler returns.
Spawn(rec) == tasks' = tasks (+) SetToBag({rec})
Suspend(r, rec) == tasks' = (tasks (-) SetToBag({r})) (+) SetToBag({rec})
Return(r) == tasks' = tasks (-) SetToBag({r})

At(r, pc) == r.pc = pc

\* time.time() advances.
Tick(d) ==
    /\ now + d <= StartTime + Horizon * d
    /\ now' = now + d
    /\ Step("clock", "", "tick", "", <<>>, "")
    /\ UNCHANGED <<bot, ledger, tasks, serial, failures>>

\* An awaited ledger or transport call raises: the handler ends there.
AwaitFails(r) ==
    /\ r.pc \notin {"mine_sleep", "airdrop_sleep"}
    /\ failures < MaxFailures
    /\ failures' = failures + 1
    /\ Return(r)
    /\ StepOf(r, r.pc, "DependencyUnavailable")
    /\ UNCHANGED <<bot, ledger, now, serial>>

(************************* quiz ********************************************)
\* quiz(ctx, difficulty) up to its first await.
\* The same lookup made in the games registry.
quiz_exists_in_games(o) == o \in DOMAIN active_games
quiz_exists(o) == o \in DOMAIN active_quizzes

QuizStart(o, difficulty) ==
    /\ CanDeliver
    /\ IF quiz_exists(o)
       THEN /\ Step("quiz", o, "entry", "AlreadyActive", <<>>, difficulty)
            /\ UNCHANGED tasks
       ELSE /\ serial < MaxStarts
            /\ Spawn([Frame EXCEPT !.pc = "quiz_fetch", !.h = "quiz",
                                      !.owner = o, !.arg = difficulty,
                                      !.checked_at = now])
            /\ Step("quiz", o, "entry", "", <<>>, difficulty)
    /\ UNCHANGED <<bot, ledger, now, serial, failures>>

\* The quiz command as the framework admits it: one invocation per user per
\* quiz_cooldown seconds.  An invocation whose question fetch is still
\* awaited holds the user's bucket until the cooldown has passed.
quiz_on_cooldown(o) ==
    \E r \in InFlight : /\ r.h = "quiz"
                         /\ r.owner = o
                         /\ now - r.checked_at < quiz_cooldown

QuizCommand(o, difficulty) ==
    /\ ~quiz_on_cooldown(o)
    /\ QuizStart(o, difficulty)

\* quiz: db.get_quiz_questions returned.
QuizFetched(r) ==
    /\ At(r, "quiz_fetch")
    /\ LET o == r.owner
           questions == get_quiz_questions(r.arg)
       IN  IF questions = <<>>
           THEN /\ StepOf(r, "quiz_fetch", "EmptyPool")
                /\ UNCHANGED <<active_quizzes, serial, failures>>
           ELSE \E i \in DOMAIN questions :
                /\ active_quizzes' = dict_set(active_quizzes, o,
                       [question |-> questions[i], attempts |-> 0,
                        max_attempts |-> quiz_max_attempts, sid |-> serial + 1])
                /\ serial' = serial + 1
                /\ StepOf(r, "quiz_fetch", "Started")
    /\ Return(r)
    /\ UNCHANGED <<active_games, mining_sessions, farming_cooldowns, windows,
                   ledger, now, failures>>

(************************* on_message **************************************)
quiz_matches(content, quiz) == lower(content) = lower(quiz.question.answer)

quiz_exhausted(quiz) == quiz.attempts >= quiz.max_attempts

\* on_message up to its first await: the quiz answer.
OnMessage(o, content) ==
    /\ CanDeliver
    /\ LET rec == [Frame EXCEPT !.h = "on_message", !.owner = o,
                                   !.content = content]
       IN  IF quiz_exists(o)
           THEN LET quiz == active_quizzes[o] IN
                IF quiz_matches(content, quiz)
                THEN /\ Spawn([rec EXCEPT !.pc = "quiz_credit",
                            !.reward = quiz_rewards[quiz.question.difficulty],
                            !.sid = quiz.sid])
                     /\ Step("on_message", o, "entry", "quiz_match", content, "")
                     /\ UNCHANGED active_quizzes
                ELSE LET missed == [quiz EXCEPT !.attempts = @ + 1] IN
                     /\ active_quizzes' = [active_quizzes EXCEPT ![o] = missed]
                     /\ IF quiz_exhausted(missed)
                        THEN /\ Spawn([rec EXCEPT !.pc = "quiz_out_send",
                                                       !.sid = quiz.sid])
                             /\ Step("on_message", o, "entry", "quiz_exhausted", content, "")
                        ELSE /\ Spawn([rec EXCEPT !.pc = "farm_read",
                                                   !.sid = quiz.sid])
                             /\ Step("on_message", o, "entry", "quiz_wrong", content, "")
           ELSE /\ Spawn([rec EXCEPT !.pc = "farm_read"])
                /\ Step("on_message", o, "entry", "no_quiz", content, "")
                /\ UNCHANGED active_quizzes
    /\ UNCHANGED <<active_games, mining_sessions, farming_cooldowns, windows,
                   ledger, now, serial, failures>>

\* on_message: db.add_balance(reward) of the solved quiz returned.
QuizCredited(r) ==
    /\ At(r, "quiz_credit")
    /\ add_balance(r.owner, r.reward, "quiz", r.sid, {})
    /\ Suspend(r, [r EXCEPT !.pc = "quiz_solved_send"])
    /\ StepOf(r, "quiz_credit", "")
    /\ UNCHANGED <<bot, now, serial, failures>>

\* on_message: the quiz's closing message was sent; del self.active_quizzes[id].
QuizClosed(r) ==
    /\ r.pc \in {"quiz_solved_send", "quiz_out_send"}
    /\ LET o == r.owner IN
       IF quiz_exists(o)
       THEN /\ active_quizzes' = dict_del(active_quizzes, o)
            /\ Suspend(r, [r EXCEPT !.pc = "farm_read"])
            /\ StepOf(r, r.pc, "removed")
       ELSE /\ Return(r)
            /\ StepOf(r, r.pc, "KeyError")
            /\ UNCHANGED active_quizzes
    /\ UNCHANGED <<active_games, mining_sessions, farming_cooldowns, windows,
                   ledger, now, serial, failures>>


(************************* the guessing game, in on_message ****************)
game_exists(o) == o \in DOMAIN active_games

game_won(guess, game) == guess = game.number

game_lost(game) == game.attempts >= game.max_attempts

\* The last part of on_message, run by whichever step gets there; rec is the
\* handler's frame.
GamePart(r, rec, step) ==
    LET o == rec.owner
        guess == parse_int(rec.content)
    IN  IF ~game_exists(o)
        THEN /\ Return(r)
             /\ StepOf(r, step, "no_game")
             /\ UNCHANGED active_games
        ELSE IF ~guess.ok
        THEN /\ Return(r)
             /\ StepOf(r, step, "InvalidInput")
             /\ UNCHANGED active_games
        ELSE LET game == [active_games[o] EXCEPT !.attempts = @ + 1] IN
             /\ active_games' = [active_games EXCEPT ![o] = game]
             /\ IF game_won(guess.value, game)
                THEN /\ Suspend(r, [rec EXCEPT !.pc = "game_credit",
                            !.reward = game_rewards.win, !.arg = "game_win",
                            !.sid = game.sid])
                     /\ StepOf(r, step, "game_win")
                ELSE IF game_lost(game)
                THEN /\ Suspend(r, [rec EXCEPT !.pc = "game_credit",
                            !.reward = game_rewards.participate,
                            !.arg = "game_participate", !.sid = game.sid])
                     /\ StepOf(r, step, "game_lose")
                ELSE /\ Return(r)
                     /\ StepOf(r, step, "hint")

\* on_message: db.add_balance of the finished game returned.
GameCredited(r) ==
    /\ At(r, "game_credit")
    /\ add_balance(r.owner, r.reward, r.arg, r.sid, {})
    /\ Suspend(r, [r EXCEPT !.pc = "game_over_send"])
    /\ StepOf(r, "game_credit", "")
    /\ UNCHANGED <<bot, now, serial, failures>>

\* on_message: the game's closing message was sent; del self.active_games[id].
GameClosed(r) ==
    /\ At(r, "game_over_send")
    /\ IF game_exists(r.owner)
       THEN /\ active_games' = dict_del(active_games, r.owner)
            /\ StepOf(r, "game_over_send", "removed")
       ELSE /\ StepOf(r, "game_over_send", "KeyError")
            /\ UNCHANGED active_games
    /\ Return(r)
    /\ UNCHANGED <<active_quizzes, mining_sessions, farming_cooldowns, windows,
                   ledger, now, serial, failures>>

(************************* social farming, in on_message *******************)
\* The cap test with > in place of >=.
cap_reached_strict(daily_earnings) == daily_earnings > farming_rewards.daily_cap
cap_reached(daily_earnings) == daily_earnings >= farming_rewards.daily_cap

farm_valid(content) ==
    Len(content) >= farming_min_length /\ ~startswith_prefix(content)

cooldown_elapsed(time, last_reward) == time - last_reward >= farming_cooldown

\* _process_social_farming: db.get_daily_earnings returned.
FarmRead(r) ==
    /\ At(r, "farm_read")
    /\ LET o == r.owner
           rec == [r EXCEPT !.daily_earnings = get_daily_earnings(o)]
           last_reward == dict_get(farming_cooldowns, o, 0)
       IN  IF    /\ ~cap_reached(rec.daily_earnings)
                 /\ farm_valid(rec.content)
                 /\ cooldown_elapsed(now, last_reward)
           THEN /\ Suspend(r, [rec EXCEPT !.pc = "farm_credit",
                       !.reward = farming_rewards.message,
                       !.last_reward = last_reward, !.checked_at = now])
                /\ StepOf(r, "farm_read", "eligible")
                /\ UNCHANGED active_games
           ELSE GamePart(r, rec, "farm_read")
    /\ UNCHANGED <<active_quizzes, mining_sessions, farming_cooldowns, windows,
                   ledger, now, serial, failures>>

\* _process_social_farming: db.add_balance(reward) returned; the cooldown is
\* marked and the bonus rolled.
FarmCredited(r) ==
    /\ At(r, "farm_credit")
    /\ add_balance(r.owner, r.reward, "farm_message", 0, {})
    /\ farming_cooldowns' = dict_set(farming_cooldowns, r.owner, now)
    /\ \E bonus \in BOOLEAN :
         IF bonus
         THEN /\ Suspend(r, [r EXCEPT !.pc = "farm_bonus",
                                              !.reward = r.reward * 2])
              /\ StepOf(r, "farm_credit", "bonus")
              /\ UNCHANGED active_games
         ELSE GamePart(r, r, "farm_credit")
    /\ UNCHANGED <<active_quizzes, mining_sessions, windows, now, serial, failures>>

\* _process_social_farming: db.add_balance(bonus) returned.
FarmBonusCredited(r) ==
    /\ At(r, "farm_bonus")
    /\ add_balance(r.owner, r.reward, "farm_bonus", 0, {})
    /\ Suspend(r, [r EXCEPT !.pc = "farm_notify"])
    /\ StepOf(r, "farm_bonus", "")
    /\ UNCHANGED <<bot, now, serial, failures>>

\* _process_social_farming: the bonus reaction and message were sent.
FarmNotified(r) ==
    /\ At(r, "farm_notify")
    /\ GamePart(r, r, "farm_notify")
    /\ UNCHANGED <<active_quizzes, mining_sessions, farming_cooldowns, windows,
                   ledger, now, serial, failures>>

(************************* mining ******************************************)
mining_exists(o) == o \in DOMAIN mining_sessions

\* The total if the epic roll were only made when the rare roll failed.
mining_total_one_bonus(rare, epic) ==
    mining_rewards.basic * mining_minutes
      + (IF rare THEN mining_rewards.rare
         ELSE IF epic THEN mining_rewards.epic ELSE 0)

mining_total(rare, epic) ==
    mining_rewards.basic * mining_minutes
      + (IF rare THEN mining_rewards.rare ELSE 0)
      + (IF epic THEN mining_rewards.epic ELSE 0)

\* mine(ctx) up to its first await.
MineStart(o) ==
    /\ CanDeliver
    /\ IF mining_exists(o)
       THEN /\ Step("mine", o, "entry", "AlreadyActive", <<>>, "")
            /\ UNCHANGED <<tasks, mining_sessions, serial, failures>>
       ELSE /\ serial < MaxStarts
            /\ mining_sessions' = dict_set(mining_sessions, o,
                   [start_time |-> now, duration |-> mining_duration,
                    sid |-> serial + 1])
            /\ serial' = serial + 1
            /\ Spawn([Frame EXCEPT !.pc = "mine_started_send",
                                      !.h = "mine", !.owner = o])
            /\ Step("mine", o, "entry", "Started", <<>>, "")
    /\ UNCHANGED <<active_quizzes, active_games, farming_cooldowns, windows,
                   ledger, now, failures>>

\* mine: the start message was sent; asyncio.sleep(300) begins.
MineSleep(r) ==
    /\ At(r, "mine_started_send")
    /\ Suspend(r, [r EXCEPT !.pc = "mine_sleep",
                                   !.wake = now + mining_duration])
    /\ StepOf(r, "mine_started_send", "")
    /\ UNCHANGED <<bot, ledger, now, serial, failures>>

\* mine: the sleep is over; the reward is computed and db.add_balance called.
MineTimer(r) ==
    /\ At(r, "mine_sleep")
    /\ now >= r.wake
    /\ IF mining_exists(r.owner)
       THEN \E rare \in BOOLEAN, epic \in BOOLEAN :
            /\ Suspend(r, [r EXCEPT !.pc = "mine_credit",
                   !.reward = mining_total(rare, epic),
                   !.sid = mining_sessions[r.owner].sid,
                   !.rolls = {k \in {"rare", "epic"} :
                                 \/ k = "rare" /\ rare
                                 \/ k = "epic" /\ epic}])
            /\ StepOf(r, "mine_sleep", "settling")
       ELSE /\ Return(r)
            /\ StepOf(r, "mine_sleep", "absent")
    /\ UNCHANGED <<bot, ledger, now, serial, failures>>

\* mine: db.add_balance(total_reward) returned.
MineCredited(r) ==
    /\ At(r, "mine_credit")
    /\ add_balance(r.owner, r.reward, "mining", r.sid,
                   r.rolls)
    /\ Suspend(r, [r EXCEPT !.pc = "mine_done_send"])
    /\ StepOf(r, "mine_credit", "")
    /\ UNCHANGED <<bot, now, serial, failures>>

\* mine: the completion message was sent; del self.mining_sessions[id].
MineClosed(r) ==
    /\ At(r, "mine_done_send")
    /\ IF mining_exists(r.owner)
       THEN /\ mining_sessions' = dict_del(mining_sessions, r.owner)
            /\ StepOf(r, "mine_done_send", "removed")
       ELSE /\ StepOf(r, "mine_done_send", "KeyError")
            /\ UNCHANGED mining_sessions
    /\ Return(r)
    /\ UNCHANGED <<active_quizzes, active_games, farming_cooldowns, windows,
                   ledger, now, serial, failures>>

(************************* play ********************************************)
\* play(ctx): the whole handler (its only await is the closing message).
PlayStart(o) ==
    /\ CanDeliver
    /\ IF game_exists(o)
       THEN /\ Step("play", o, "entry", "AlreadyActive", <<>>, "")
            /\ UNCHANGED <<active_games, serial, failures>>
       ELSE /\ serial < MaxStarts
            /\ \E number \in Secrets :
                 active_games' = dict_set(active_games, o,
                     [number |-> number, attempts |-> 0,
                      max_attempts |-> game_max_attempts, sid |-> serial + 1])
            /\ serial' = serial + 1
            /\ Step("play", o, "entry", "Started", <<>>, "")
    /\ UNCHANGED <<active_quizzes, mining_sessions, farming_cooldowns, windows,
                   ledger, now, tasks, failures>>

(************************* airdrop *****************************************)
\* amount // len(self.airdrop_participants)
coins_per_user(amount, participants) == amount \div Cardinality(participants)

\* airdrop(ctx, amount, duration) up to its first await: the participant
\* set is cleared and the announcement sent.
AirdropStart(o, amount, duration) ==
    /\ CanDeliver
    /\ serial < MaxWindows
    /\ airdrop_participants' = {}
    /\ serial' = serial + 1
    /\ Spawn([Frame EXCEPT !.pc = "airdrop_open_send", !.h = "airdrop",
                           !.owner = o, !.pool = amount, !.duration = duration,
                           !.sid = serial + 1])
    /\ Step("airdrop", o, "entry", "Opened", <<>>, "")
    /\ UNCHANGED <<sessions, farming_cooldowns, active_proposals, sent_embeds,
                   ledger, now, failures>>

\* airdrop: the announcement and its reaction were sent;
\* asyncio.sleep(duration * 60) begins.
AirdropSleep(r) ==
    /\ At(r, "airdrop_open_send")
    /\ Suspend(r, [r EXCEPT !.pc = "airdrop_sleep",
                            !.wake = now + r.duration * 60])
    /\ StepOf(r, "airdrop_open_send", "")
    /\ UNCHANGED <<bot, ledger, now, serial, failures>>

\* airdrop: the sleep is over.  The reward is computed and the loop over the
\* participant set begins: its iterator remembers the set's size.
AirdropTimer(r) ==
    /\ At(r, "airdrop_sleep")
    /\ now >= r.wake
    /\ IF airdrop_participants # {}
       THEN \E user_id \in airdrop_participants :
            /\ Suspend(r, [r EXCEPT !.pc = "airdrop_credit",
                   !.reward = Coins(coins_per_user(r.pool, airdrop_participants)),
                   !.members = airdrop_participants,
                   !.it_set = airdrop_participants,
                   !.it_used = Cardinality(airdrop_participants),
                   !.visited = {user_id}, !.arg = user_id])
            /\ StepOf(r, "airdrop_sleep", "closing")
       ELSE /\ Return(r)
            /\ StepOf(r, "airdrop_sleep", "empty")
    /\ UNCHANGED <<bot, ledger, now, serial, failures>>

\* airdrop: db.add_balance(user_id, coins_per_user) returned and the loop
\* asks its iterator for the next participant.  A set whose size changed
\* since the loop began raises RuntimeError.  A set emptied and refilled to
\* the same size has a new hash table, which the iterator walks on from its
\* old position: it may stop early, or yield any member of the new table,
\* one already credited included.
AirdropCredited(r) ==
    /\ At(r, "airdrop_credit")
    /\ add_balance(r.arg, r.reward, "airdrop", r.sid, {})
    /\ IF Cardinality(airdrop_participants) # r.it_used
       THEN /\ Return(r)
            /\ StepOf(r, "airdrop_credit", "RuntimeError")
       ELSE IF airdrop_participants # r.it_set
       THEN \/ /\ Return(r)
               /\ StepOf(r, "airdrop_credit", "Distributed")
            \/ \E user_id \in airdrop_participants :
               /\ Suspend(r, [r EXCEPT !.it_set = airdrop_participants,
                                       !.visited = {user_id}, !.arg = user_id])
               /\ StepOf(r, "airdrop_credit", "")
       ELSE LET rest == r.it_set \ r.visited IN
            IF rest = {}
            THEN /\ Return(r)
                 /\ StepOf(r, "airdrop_credit", "Distributed")
            ELSE \E user_id \in rest :
                 /\ Suspend(r, [r EXCEPT !.visited = @ \cup {user_id},
                                         !.arg = user_id])
                 /\ StepOf(r, "airdrop_credit", "")
    /\ UNCHANGED <<bot, now, serial, failures>>

(************************* governance **************************************)
\* The propose commands in flight: each will send one message.
Proposing ==
    LET frames == {r \in InFlight : r.h = "propose"}
    IN  BagCardinality([r \in frames |-> CopiesIn(r, tasks)])

\* propose(ctx, proposal) up to its first await.
Propose(o) ==
    /\ CanDeliver
    /\ serial + Proposing < MaxWindows
    /\ Spawn([Frame EXCEPT !.pc = "propose_balance", !.h = "propose",
                           !.owner = o])
    /\ Step("propose", o, "entry", "", <<>>, "")
    /\ UNCHANGED <<bot, ledger, now, serial, failures>>

\* propose: db.get_balance returned.
ProposeChecked(r) ==
    /\ At(r, "propose_balance")
    /\ IF get_balance(r.owner) < Coins(proposal_min_balance)
       THEN /\ Return(r)
            /\ StepOf(r, "propose_balance", "NotEligible")
            /\ UNCHANGED active_proposals
       ELSE LET proposal_id == Cardinality(DOMAIN active_proposals) IN
            /\ active_proposals' = dict_set(active_proposals, proposal_id,
                   [text |-> "proposal", creator |-> r.owner, votes_for |-> 0,
                    votes_against |-> 0, voters |-> {},
                    end_time |-> now + proposal_window])
            /\ Suspend(r, [r EXCEPT !.pc = "propose_send", !.sid = proposal_id])
            /\ StepOf(r, "propose_balance", "Opened")
    /\ UNCHANGED <<sessions, farming_cooldowns, airdrop_participants,
                   sent_embeds, ledger, now, serial, failures>>

\* propose: ctx.send returned the proposal's message; the two vote markers
\* are added to it.  The message's id is kept by the transport only.
ProposeSent(r) ==
    /\ At(r, "propose_send")
    /\ sent_embeds' = dict_set(sent_embeds, serial + 1, r.sid)
    /\ serial' = serial + 1
    /\ Return(r)
    /\ StepOf(r, "propose_send", "Announced")
    /\ UNCHANGED <<sessions, farming_cooldowns, active_proposals,
                   airdrop_participants, ledger, now, failures>>

(************************* on_reaction_add *********************************)
\* The class body binds names in order: a later def replaces an earlier one
\* of the same name.  <<name, line of the def>>.
class_body ==
    << <<"quiz", 132>>, <<"on_message", 158>>, <<"_process_social_farming", 204>>,
       <<"on_reaction_add", 232>>, <<"balance", 247>>, <<"mine", 260>>,
       <<"play", 305>>, <<"propose", 322>>, <<"airdrop", 351>>,
       <<"on_reaction_add", 373>> >>

bound_method(name) ==
    LET defs == {i \in DOMAIN class_body : class_body[i][1] = name}
        last == CHOOSE i \in defs : \A j \in defs : j <= i
    IN  class_body[last][2]

\* proposal.get('message_id'): [some, id]; some = FALSE is None.
proposal_message_id(proposal) ==
    IF "message_id" \in DOMAIN proposal
    THEN [some |-> TRUE, id |-> proposal["message_id"]]
    ELSE [some |-> FALSE, id |-> 0]

\* reaction.message.id == proposal.get('message_id')
is_proposal_message(message_id, proposal) ==
    proposal_message_id(proposal).some /\ proposal_message_id(proposal).id = message_id

StepReaction(o, emoji, message_id, result) ==
    event' = [h |-> "on_reaction_add", owner |-> o, step |-> "entry",
              result |-> result, content |-> <<>>, arg |-> emoji,
              msg |-> message_id]

\* on_reaction_add as defined at line 232 (reaction farming), up to its
\* first await.
ReactionFarming(o, emoji, message_id) ==
    /\ Spawn([Frame EXCEPT !.pc = "react_daily", !.h = "on_reaction_add",
                           !.owner = o, !.arg = emoji, !.msg = message_id])
    /\ StepReaction(o, emoji, message_id, "")
    /\ UNCHANGED <<airdrop_participants, active_proposals>>

\* on_reaction_add (line 232): db.get_daily_earnings returned.
ReactionFarmRead(r) ==
    /\ At(r, "react_daily")
    /\ IF cap_reached(get_daily_earnings(r.owner))
       THEN /\ Return(r)
            /\ StepOf(r, "react_daily", "NotEligible")
       ELSE /\ Suspend(r, [r EXCEPT !.pc = "react_credit",
                                    !.reward = farming_rewards.reaction])
            /\ StepOf(r, "react_daily", "eligible")
    /\ UNCHANGED <<bot, ledger, now, serial, failures>>

\* on_reaction_add (line 232): db.add_balance(reward) returned.
ReactionFarmCredited(r) ==
    /\ At(r, "react_credit")
    /\ add_balance(r.owner, r.reward, "reaction", 0, {})
    /\ Return(r)
    /\ StepOf(r, "react_credit", "")
    /\ UNCHANGED <<bot, now, serial, failures>>

\* on_reaction_add as defined at line 373 (airdrop and governance), up to
\* its first await: the await is reached only for a proposal whose
\* message_id equals the reaction's message.
ReactionWindows(o, emoji, message_id) ==
    LET voting == emoji \in {"up", "down"}
        matching == {p \in DOMAIN active_proposals :
                        /\ is_proposal_message(message_id, active_proposals[p])
                        /\ o \notin active_proposals[p].voters}
    IN  /\ airdrop_participants' =
               IF emoji = "gift" THEN airdrop_participants \cup {o}
               ELSE airdrop_participants
        /\ IF voting /\ matching # {}
           THEN /\ Spawn([Frame EXCEPT !.pc = "vote_balance",
                      !.h = "on_reaction_add", !.owner = o, !.arg = emoji,
                      !.msg = message_id,
                      !.sid = CHOOSE p \in matching : \A q \in matching : p <= q])
                /\ StepReaction(o, emoji, message_id, "")
           ELSE /\ UNCHANGED tasks
                /\ StepReaction(o, emoji, message_id,
                       IF emoji = "gift" THEN "Joined" ELSE "NoVote")
        /\ UNCHANGED active_proposals

\* on_reaction_add (line 373): db.get_balance returned; the vote is added.
VoteWeighed(r) ==
    /\ At(r, "vote_balance")
    /\ LET voting_power == get_balance(r.owner)
           proposal == active_proposals[r.sid]
       IN  active_proposals' = [active_proposals EXCEPT ![r.sid] =
               [proposal EXCEPT
                  !.votes_for = IF r.arg = "up" THEN @ + voting_power ELSE @,
                  !.votes_against = IF r.arg = "up" THEN @ ELSE @ + voting_power,
                  !.voters = @ \cup {r.owner}]]
    /\ Return(r)
    /\ StepOf(r, "vote_balance", "Voted")
    /\ UNCHANGED <<sessions, farming_cooldowns, airdrop_participants,
                   sent_embeds, ledger, now, serial, failures>>

\* The reaction-added event, dispatched to the method the class binds.
OnReactionAdd(o, emoji, message_id) ==
    /\ CanDeliver
    /\ IF bound_method("on_reaction_add") = 232
       THEN ReactionFarming(o, emoji, message_id)
       ELSE ReactionWindows(o, emoji, message_id)
    /\ UNCHANGED <<sessions, farming_cooldowns, sent_embeds, ledger, now,
                   serial, failures>>

(************************* specifications **********************************)
\* One specification per activity: the handlers that touch it, with the
\* events of one user.
SessionUsers == {"u1"}

InitSessions ==
    /\ Init
    /\ \A u \in Users : balance[u] = 0

\* Quiz: start requests and answers.
QuizTexts == {TxtFour, TxtFive, TxtPARIS}

NextQuiz ==
    \/ \E o \in SessionUsers, d \in Difficulties : QuizStart(o, d)
    \/ \E o \in SessionUsers, c \in QuizTexts : OnMessage(o, c)
    \/ \E r \in InFlight : QuizFetched(r)
    \/ \E r \in InFlight : QuizCredited(r)
    \/ \E r \in InFlight : QuizClosed(r)
    \/ \E r \in InFlight : FarmRead(r)
    \/ \E r \in InFlight : AwaitFails(r)

SpecQuiz == InitSessions /\ [][NextQuiz]_vars

\* Quiz start requests of one owner that overlap, and wrong answers.
RaceDifficulties == {"easy"}
RaceTexts == {TxtFive}

NextQuizRace ==
    \/ \E o \in SessionUsers, d \in RaceDifficulties : QuizCommand(o, d)
    \/ \E o \in SessionUsers, c \in RaceTexts : OnMessage(o, c)
    \/ \E r \in InFlight : QuizFetched(r)
    \/ \E r \in InFlight : QuizClosed(r)
    \/ \E r \in InFlight : FarmRead(r)
    \/ \E r \in InFlight : AwaitFails(r)
    \/ Tick(quiz_cooldown)

SpecQuizRace == InitSessions /\ [][NextQuizRace]_vars

\* Guessing game: start requests and guesses.
GameTexts == {TxtFour, TxtPARIS}

NextGame ==
    \/ \E o \in SessionUsers : PlayStart(o)
    \/ \E o \in SessionUsers, c \in GameTexts : OnMessage(o, c)
    \/ \E r \in InFlight : FarmRead(r)
    \/ \E r \in InFlight : GameCredited(r)
    \/ \E r \in InFlight : GameClosed(r)
    \/ \E r \in InFlight : AwaitFails(r)

SpecGame == InitSessions /\ [][NextGame]_vars

\* Mining: start requests and the timer.
MineUsers == {"u1", "u2"}

NextMine ==
    \/ \E o \in MineUsers : MineStart(o)
    \/ \E r \in InFlight : MineSleep(r)
    \/ \E r \in InFlight : MineTimer(r)
    \/ \E r \in InFlight : MineCredited(r)
    \/ \E r \in InFlight : MineClosed(r)
    \/ \E r \in InFlight : AwaitFails(r)
    \/ Tick(mining_duration)

SpecMine == InitSessions /\ [][NextMine]_vars

\* Farming: messages of a user with no session.
FarmTexts == {TxtNine, TxtTen, TxtCommand}
DailyStarts == {0, farming_rewards.daily_cap - Coins(1), farming_rewards.daily_cap}

InitFarm ==
    /\ active_quizzes = <<>>
    /\ active_games = <<>>
    /\ mining_sessions = <<>>
    /\ farming_cooldowns = <<>>
    /\ active_proposals = <<>>
    /\ airdrop_participants = {}
    /\ sent_embeds = <<>>
    /\ balance = [u \in Users |-> 0]
    /\ daily \in [Users -> DailyStarts]
    /\ \A u \in Users \ SessionUsers : daily[u] = 0
    /\ now = StartTime
    /\ tasks = EmptyBag
    /\ ledger_log = <<>>
    /\ event = NoEvent
    /\ serial = 0
    /\ failures = 0

NextFarm ==
    \/ \E o \in SessionUsers, c \in FarmTexts : OnMessage(o, c)
    \/ \E r \in InFlight : FarmRead(r)
    \/ \E r \in InFlight : FarmCredited(r)
    \/ \E r \in InFlight : FarmBonusCredited(r)
    \/ \E r \in InFlight : FarmNotified(r)
    \/ \E r \in InFlight : AwaitFails(r)
    \/ Tick(farming_cooldown)

SpecFarm == InitFarm /\ [][NextFarm]_vars


\* Session starts of the three kinds.
StartDifficulties == {"easy", "medium"}

NextStart ==
    \/ \E o \in SessionUsers, d \in StartDifficulties : QuizStart(o, d)
    \/ \E o \in SessionUsers : MineStart(o)
    \/ \E o \in SessionUsers : PlayStart(o)
    \/ \E r \in InFlight : QuizFetched(r)
    \/ \E r \in InFlight : MineSleep(r)
    \/ \E r \in InFlight : MineTimer(r)
    \/ \E r \in InFlight : MineCredited(r)
    \/ \E r \in InFlight : MineClosed(r)
    \/ \E r \in InFlight : AwaitFails(r)
    \/ Tick(mining_duration)

SpecStart == InitSessions /\ [][NextStart]_vars


\* A message of an owner who has a quiz and a game at once.
BothTexts == {TxtFive}
BothDifficulties == {"easy"}

NextBoth ==
    \/ \E o \in SessionUsers, d \in BothDifficulties : QuizStart(o, d)
    \/ \E o \in SessionUsers : PlayStart(o)
    \/ \E o \in SessionUsers, c \in BothTexts : OnMessage(o, c)
    \/ \E r \in InFlight : QuizFetched(r)
    \/ \E r \in InFlight : QuizClosed(r)
    \/ \E r \in InFlight : FarmRead(r)
    \/ \E r \in InFlight : GameCredited(r)
    \/ \E r \in InFlight : GameClosed(r)
    \/ \E r \in InFlight : AwaitFails(r)

SpecBoth == InitSessions /\ [][NextBoth]_vars

\* Airdrops, proposals and reactions.
Admins == {"u1"}
Pools == {100}
Durations == {1}
Proposers == {"u1", "u2"}
VoteEmojis == {"up", "down"}
\* Message 0 is a message of the channel that is no proposal's.
OtherMessage == 0

InitWindows ==
    /\ Init
    /\ balance["u1"] = Coins(100)
    /\ balance["u2"] = 0
    /\ balance["u3"] = Coins(100)

NextWindows ==
    \/ \E o \in Admins, amount \in Pools, duration \in Durations :
         AirdropStart(o, amount, duration)
    \/ \E o \in Proposers : Propose(o)
    \/ \E o \in Users : OnReactionAdd(o, "gift", OtherMessage)
    \/ \E o \in Users, emoji \in VoteEmojis, m \in DOMAIN sent_embeds :
         OnReactionAdd(o, emoji, m)
    \/ \E r \in InFlight : AirdropSleep(r)
    \/ \E r \in InFlight : AirdropTimer(r)
    \/ \E r \in InFlight : AirdropCredited(r)
    \/ \E r \in InFlight : ProposeChecked(r)
    \/ \E r \in InFlight : ProposeSent(r)
    \/ \E r \in InFlight : AwaitFails(r)
    \/ Tick(farming_cooldown)

SpecWindows == InitWindows /\ [][NextWindows]_vars

\* Proposals over their 24 hours.
NextGovern ==
    \/ \E o \in Proposers : Propose(o)
    \/ \E o \in Users, emoji \in VoteEmojis, m \in DOMAIN sent_embeds :
         OnReactionAdd(o, emoji, m)
    \/ \E r \in InFlight : ProposeChecked(r)
    \/ \E r \in InFlight : ProposeSent(r)
    \/ \E r \in InFlight : AwaitFails(r)
    \/ Tick(proposal_window)

SpecGovern == InitWindows /\ [][NextGovern]_vars

(************************* properties **************************************)
LogIndexes(path) == {i \in DOMAIN ledger_log : ledger_log[i].path = path}
FarmPaths == {"farm_message", "farm_bonus"}
GamePaths == {"game_win", "game_participate"}
Started(h) == event'.h = h /\ event'.step = "entry"

\* C1: a start request handled while the owner already has a session of
\* that kind is rejected as already active, and leaves every registry, the
\* ledger and the suspended handlers as they were.
C1_StartRejected ==
    [][\A o \in Users :
         /\ (Started("quiz") /\ event'.owner = o /\ o \in DOMAIN active_quizzes)
              => /\ event'.result = "AlreadyActive"
                 /\ UNCHANGED <<bot, ledger, tasks>>
         /\ (Started("mine") /\ event'.owner = o /\ o \in DOMAIN mining_sessions)
              => /\ event'.result = "AlreadyActive"
                 /\ UNCHANGED <<bot, ledger, tasks>>
         /\ (Started("play") /\ event'.owner = o /\ o \in DOMAIN active_games)
              => /\ event'.result = "AlreadyActive"
                 /\ UNCHANGED <<bot, ledger, tasks>>]_vars

\* A second mine request was rejected after the clock moved on, while the
\* owner also has a quiz; the mining session still carries its start time.
C1_Witness ==
    /\ event.h = "mine" /\ event.result = "AlreadyActive"
    /\ event.owner \in DOMAIN mining_sessions
    /\ mining_sessions[event.owner].start_time < now
    /\ event.owner \in DOMAIN active_quizzes

\* C2: over the lifetime of one quiz session the quiz path credits the
\* ledger at most once, and what it credits is a tier reward.
C2_QuizCreditedOnce ==
    \A i \in LogIndexes("quiz"), j \in LogIndexes("quiz") :
        /\ ledger_log[i].amount \in {quiz_rewards[d] : d \in DOMAIN quiz_rewards}
        /\ ledger_log[i].sid = ledger_log[j].sid => i = j

\* C3: a quiz session present in the registry has 0..2 attempts, and no
\* answer is credited for a session that has used up its attempts.
C3_AttemptsBelowMax ==
    /\ \A o \in DOMAIN active_quizzes :
         active_quizzes[o].attempts \in 0..(quiz_max_attempts - 1)
    /\ \A r \in InFlight :
         r.pc = "quiz_credit" /\ r.owner \in DOMAIN active_quizzes
           => active_quizzes[r.owner].attempts < quiz_max_attempts

\* C4: a guessing game is settled by at most one ledger credit, the win
\* reward or the participate reward.
C4_GameCreditedOnce ==
    \A i \in DOMAIN ledger_log, j \in DOMAIN ledger_log :
        /\ ledger_log[i].path \in GamePaths
        /\ ledger_log[j].path \in GamePaths
        /\ ledger_log[i].sid = ledger_log[j].sid
        => i = j

\* C5: a mining settlement is one ledger call of 5 coins plus 5 if the rare
\* roll succeeded plus 10 if the epic roll succeeded: 5, 10, 15 or 20.
C5_MiningAmount ==
    \A i \in LogIndexes("mining") :
        LET e == ledger_log[i] IN
        /\ e.amount = Coins(5) + (IF "rare" \in e.rolls THEN Coins(5) ELSE 0)
                               + (IF "epic" \in e.rolls THEN Coins(10) ELSE 0)
        /\ e.amount \in {Coins(5), Coins(10), Coins(15), Coins(20)}
        /\ e.amount >= Coins(5)
        /\ \A j \in LogIndexes("mining") : ledger_log[j].sid = e.sid => j = i

\* A settlement in which both rolls succeeded, and one in which neither did.
C5_Witness ==
    /\ \E i \in LogIndexes("mining") :
         ledger_log[i].rolls = {"rare", "epic"} /\ ledger_log[i].amount = Coins(20)
    /\ \E i \in LogIndexes("mining") :
         ledger_log[i].rolls = {} /\ ledger_log[i].amount = Coins(5)

\* C9: a farming reward is credited only by a handler whose message has at
\* least 10 characters and no command prefix, which read daily earnings
\* below the cap and found the cooldown elapsed; a handler of a shorter
\* message, or one that reads daily earnings at or above the cap, credits
\* nothing and leaves the cooldowns as they were.
Eligible(r) ==
    /\ Len(r.content) >= 10
    /\ r.content[1] # "!"
    /\ r.daily_earnings < Coins(50)
    /\ r.checked_at - r.last_reward >= 60

C9_FarmingEligibility ==
    [][/\ \A r \in BagToSet(tasks') :
            r.pc \in {"farm_credit", "farm_bonus"} => Eligible(r)
       /\ (Len(ledger_log') > Len(ledger_log)
             /\ ledger_log'[Len(ledger_log')].path \in FarmPaths)
            => \E r \in InFlight :
                 /\ r.pc \in {"farm_credit", "farm_bonus"}
                 /\ Eligible(r)
                 /\ r.owner = ledger_log'[Len(ledger_log')].owner
                 /\ CopiesIn(r, tasks') < CopiesIn(r, tasks)
       /\ (event'.h = "on_message"
             /\ \/ Len(event'.content) < 10
                \/ event'.step = "farm_read" /\ daily[event'.owner] >= Coins(50))
            => /\ UNCHANGED <<farming_cooldowns, ledger>>
               /\ \A r \in BagToSet(tasks') :
                    r.pc \in {"farm_credit", "farm_bonus"} => r \in InFlight
      ]_vars

\* A base reward was credited and the cooldown marked; then a message of
\* nine characters was handled.
C9_Witness ==
    /\ LogIndexes("farm_message") # {}
    /\ event.h = "on_message" /\ event.step = "farm_read"
    /\ Len(event.content) = 9
    /\ event.owner \in DOMAIN farming_cooldowns

\* C6: when the airdrop command ends after its sleep, no other airdrop or
\* proposal having been opened since it began, every member of the
\* participant set it closed with has been credited floor(pool / n) exactly
\* once by that airdrop and nobody else has; closing with the empty set
\* credits nothing.
C6_AirdropShares ==
    [][\A r \in InFlight :
         (/\ r.h = "airdrop"
          /\ r.sid = serial
          /\ event'.h = "airdrop"
          /\ event'.result \in {"Distributed", "RuntimeError", "empty"}
          /\ tasks' = tasks (-) SetToBag({r}))
         => IF r.pc = "airdrop_sleep"
            THEN UNCHANGED ledger
            ELSE \A o \in Users :
                 LET credits == {i \in DOMAIN ledger_log' :
                                   /\ ledger_log'[i].path = "airdrop"
                                   /\ ledger_log'[i].sid = r.sid
                                   /\ ledger_log'[i].owner = o}
                 IN  IF o \in r.members
                     THEN /\ Cardinality(credits) = 1
                          /\ \A i \in credits : ledger_log'[i].amount =
                                 Coins(r.pool \div Cardinality(r.members))
                     ELSE credits = {}]_vars

\* C7: once on_reaction_add has handled a vote marker put on a proposal's
\* message, the reacting user is one of the proposal's voters, or the
\* handler is waiting for the user's balance in order to add the vote.
C7_VoteRecorded ==
    (/\ event.h = "on_reaction_add"
     /\ event.step = "entry"
     /\ event.arg \in VoteEmojis
     /\ event.msg \in DOMAIN sent_embeds)
    => LET proposal_id == sent_embeds[event.msg] IN
       \/ event.owner \in active_proposals[proposal_id].voters
       \/ \E r \in InFlight : /\ r.pc = "vote_balance"
                              /\ r.owner = event.owner
                              /\ r.sid = proposal_id

\* C10: once on_reaction_add has handled a reaction of a user whose daily
\* earnings are below the cap, the reaction reward is credited to the user
\* or the handler is on its way to crediting it.
C10_ReactionRewarded ==
    (/\ event.h = "on_reaction_add"
     /\ event.step = "entry"
     /\ ~cap_reached(get_daily_earnings(event.owner)))
    => \/ \E i \in LogIndexes("reaction") :
            /\ ledger_log[i].owner = event.owner
            /\ ledger_log[i].amount = farming_rewards.reaction
       \/ \E r \in InFlight : /\ r.pc \in {"react_daily", "react_credit"}
                              /\ r.owner = event.owner

HasLetter(content) ==
    \E i \in DOMAIN content, j \in DOMAIN LowerCase :
        content[i] \in {LowerCase[j], UpperCase[j]}

GameIndexes(log) == {i \in DOMAIN log : log[i].path \in GamePaths}

\* C11: no step of an on_message handler whose message holds a letter (so
\* is no integer) changes the owner's game session, credits a game reward
\* or ends in an error of the game part.
C11_NonNumericIgnored ==
    [][(event'.h = "on_message" /\ HasLetter(event'.content))
         => /\ active_games' = active_games
            /\ GameIndexes(ledger_log') = GameIndexes(ledger_log)
            /\ event'.result \notin {"KeyError", "ValueError"}]_vars

C11_Witness ==
    /\ event.h = "on_message"
    /\ event.result = "InvalidInput"
    /\ HasLetter(event.content)
    /\ event.owner \in DOMAIN active_games
    /\ active_games[event.owner].attempts >= 1

\* C12: no step of a quiz command (its entry, or the completion of its
\* question fetch) changes the question or the attempts of a quiz session
\* its owner already has.
C12_SessionKept ==
    [][\A o \in Users :
         (event'.h = "quiz" /\ event'.owner = o /\ o \in DOMAIN active_quizzes)
         => /\ o \in DOMAIN active_quizzes'
            /\ active_quizzes'[o].question = active_quizzes[o].question
            /\ active_quizzes'[o].attempts = active_quizzes[o].attempts]_vars

\* C13: every mining session in the registry is credited at most once and
\* has the mine command that created it still pending, the only code that
\* settles and removes it; a session without it stays in the registry for
\* ever and its owner is rejected as already mining for ever.
C13_SessionHasTimer ==
    /\ \A i, j \in LogIndexes("mining") :
         ledger_log[i].sid = ledger_log[j].sid => i = j
    /\ \A o \in DOMAIN mining_sessions :
         \E r \in InFlight : r.h = "mine" /\ r.owner = o

\* C14: no handler step that removes a session (quiz solved, quiz exhausted,
\* game won, game lost, mining settled) ends in KeyError.
C14_RemovalNeverFaults == event.result # "KeyError"

\* C15: the day's earnings of an owner who is credited farming rewards only
\* never exceed the daily cap.
C15_DailyCapKept ==
    \A o \in Users :
        (\A i \in DOMAIN ledger_log :
            ledger_log[i].owner = o => ledger_log[i].path \in FarmPaths \cup {"reaction"})
        => get_daily_earnings(o) <= farming_rewards.daily_cap

\* C16: an owner's base message rewards are at least one cooldown apart, so
\* after t seconds of the run an owner has been credited at most
\* t div 60 + 1 of them.
C16_OneRewardPerWindow ==
    \A o \in Users :
        Cardinality({i \in LogIndexes("farm_message") : ledger_log[i].owner = o})
            <= (now - StartTime) \div farming_cooldown + 1

\* C17: opening an airdrop while another airdrop is still collecting
\* reactions removes none of the participants collected so far.
C17_OpenKeepsParticipants ==
    [][(/\ event'.h = "airdrop"
        /\ event'.step = "entry"
        /\ \E r \in InFlight : /\ r.h = "airdrop"
                               /\ r.pc \in {"airdrop_open_send", "airdrop_sleep"})
       => airdrop_participants \subseteq airdrop_participants']_vars

\* C18: a proposal in the registry whose end time has passed has a pending
\* command that closes and settles it; without one it is never closed.
C18_ProposalClosed ==
    \A p \in DOMAIN active_proposals :
        now >= active_proposals[p].end_time
        => \E r \in InFlight : r.h = "propose" /\ r.sid = p

\* C19: the airdrop's distribution loop never ends in RuntimeError with
\* participants left uncredited.
C19_DistributionCompletes ==
    event.h = "airdrop" => event.result # "RuntimeError"

\* C20: in a run in which no ledger or transport call failed, an on_message
\* handler of a numeric message that missed the quiz answer, delivered to
\* an owner who has a game, does not return without having added one to the
\* game's attempts: the step at which it leaves the quiz and farming parts
\* does so.
C20_GameStepApplied ==
    [][\A r \in InFlight :
         (/\ r.h = "on_message"
          /\ parse_int(r.content).ok
          /\ r.pc \notin {"quiz_solved_send", "game_credit", "game_over_send"}
          /\ tasks' = tasks (-) SetToBag({r})
          /\ failures' = 0
          /\ r.owner \in DOMAIN active_games)
         => /\ r.owner \in DOMAIN active_games'
            /\ active_games'[r.owner].attempts
                   = active_games[r.owner].attempts + 1]_vars

====
